---- MODULE Spec2Model ----
(***************************************************************************)
(* Model of saude_municipal_app/app.py: the data source resolver           *)
(* (conectar_banco), the reconciliation pipeline (carregar_dados_reais,    *)
(* carregar_dados_exemplo), the module-level load step and the filter of   *)
(* the presentation layer, over successive runs of the page script.        *)
(***************************************************************************)
EXTENDS Integers, Sequences, FiniteSets, TLC

(***************************************************************************)
(* Numbers.  A pandas/SQL numeric cell is an exact fraction n/d in lowest  *)
(* terms with d > 0.  d = 0 encodes the non-finite floats: 0/0 is NaN      *)
(* (the SQL NULL and the pandas missing value), 1/0 and -1/0 are +inf and  *)
(* -inf, which float division by zero yields in pandas.                    *)
(***************************************************************************)
RECURSIVE Gcd(_, _)
Gcd(a, b) == IF b = 0 THEN a ELSE Gcd(b, a % b)

Abs(x) == IF x < 0 THEN -x ELSE x

Sign(x) == IF x < 0 THEN -1 ELSE IF x = 0 THEN 0 ELSE 1

NaN == [n |-> 0, d |-> 0]

\* The fraction n/d, d any integer, as a normalised cell.
Frac(n, d) ==
    IF d = 0 THEN [n |-> Sign(n), d |-> 0]
    ELSE LET g == Gcd(Abs(n), Abs(d))
         IN  [n |-> Sign(d) * (n \div g), d |-> Abs(d) \div g]

Num(k) == [n |-> k, d |-> 1]

IsNull(x) == x.d = 0 /\ x.n = 0

IsInf(x) == x.d = 0 /\ x.n # 0

IsFinite(x) == x.d # 0

\* x * y; the factors are cross-reduced first so that no intermediate
\* product is larger than the result.
RatMul(x, y) ==
    IF IsNull(x) \/ IsNull(y) THEN NaN
    ELSE IF x.d = 0 \/ y.d = 0
         THEN (IF x.n = 0 \/ y.n = 0 THEN NaN
               ELSE [n |-> Sign(x.n) * Sign(y.n), d |-> 0])
    ELSE LET g1 == Gcd(Abs(x.n), y.d)
             g2 == Gcd(Abs(y.n), x.d)
         IN  Frac((x.n \div g1) * (y.n \div g2), (x.d \div g2) * (y.d \div g1))

\* x / y with float semantics: finite/0 is an infinity, 0/0 is NaN.
RatDiv(x, y) ==
    IF IsNull(x) \/ IsNull(y) THEN NaN
    ELSE IF y.d = 0 THEN (IF x.d = 0 THEN NaN ELSE Num(0))
    ELSE IF x.d = 0 THEN [n |-> x.n * (IF y.n < 0 THEN -1 ELSE 1), d |-> 0]
    ELSE IF y.n = 0 THEN [n |-> Sign(x.n), d |-> 0]
    ELSE RatMul(x, Frac(y.d, y.n))

RatAdd(x, y) ==
    IF IsNull(x) \/ IsNull(y) THEN NaN
    ELSE IF x.d = 0 /\ y.d = 0 THEN (IF x.n = y.n THEN x ELSE NaN)
    ELSE IF x.d = 0 THEN x
    ELSE IF y.d = 0 THEN y
    ELSE LET g == Gcd(x.d, y.d)
         IN  Frac(x.n * (y.d \div g) + y.n * (x.d \div g), (x.d \div g) * y.d)

\* Three-way comparison of a/b and c/d (b, d > 0) by continued fractions,
\* so that no cross product is formed: -1, 0 or 1.
RECURSIVE CmpFrac(_, _, _, _)
CmpFrac(a, b, c, d) ==
    LET qa == a \div b
        qc == c \div d
        ra == a - qa * b
        rc == c - qc * d
    IN  IF qa # qc THEN (IF qa < qc THEN -1 ELSE 1)
        ELSE IF ra = 0 /\ rc = 0 THEN 0
        ELSE IF ra = 0 THEN -1
        ELSE IF rc = 0 THEN 1
        ELSE CmpFrac(d, rc, b, ra)

\* Float comparison x <= y: false whenever an operand is NaN.
RatLE(x, y) ==
    IF IsNull(x) \/ IsNull(y) THEN FALSE
    ELSE IF x.d = 0 THEN (x.n < 0 \/ (y.d = 0 /\ y.n > 0))
    ELSE IF y.d = 0 THEN y.n > 0
    ELSE CmpFrac(x.n, x.d, y.n, y.d) <= 0

RatGE(x, y) == RatLE(y, x)

RatGT(x, y) == RatLE(y, x) /\ ~RatLE(x, y)

Min2(a, b) == IF a <= b THEN a ELSE b

(***************************************************************************)
(* Generic sequence helpers.                                               *)
(***************************************************************************)
RECURSIVE Concat(_)
Concat(ss) == IF ss = <<>> THEN <<>> ELSE Head(ss) \o Concat(Tail(ss))

\* The recursions over a sequence split it in halves, so that their depth
\* is logarithmic in its length.
RECURSIVE SumCells(_)
SumCells(s) ==
    IF s = <<>> THEN Num(0)
    ELSE IF Len(s) = 1 THEN s[1]
    ELSE LET h == Len(s) \div 2
         IN  RatAdd(SumCells(SubSeq(s, 1, h)), SumCells(SubSeq(s, h + 1, Len(s))))

\* The smaller (larger) of two cells, a missing one giving way to the other.
MinSkipNa(a, b) ==
    IF IsNull(a) THEN b ELSE IF IsNull(b) THEN a ELSE IF RatLE(a, b) THEN a ELSE b

MaxSkipNa(a, b) ==
    IF IsNull(a) THEN b ELSE IF IsNull(b) THEN a ELSE IF RatGE(a, b) THEN a ELSE b

\* pandas Series.min() / .max(): missing values are skipped; NaN when no
\* value is left.
RECURSIVE SeriesMin(_)
SeriesMin(s) ==
    IF s = <<>> THEN NaN
    ELSE IF Len(s) = 1 THEN s[1]
    ELSE LET h == Len(s) \div 2
         IN  MinSkipNa(SeriesMin(SubSeq(s, 1, h)), SeriesMin(SubSeq(s, h + 1, Len(s))))

RECURSIVE SeriesMax(_)
SeriesMax(s) ==
    IF s = <<>> THEN NaN
    ELSE IF Len(s) = 1 THEN s[1]
    ELSE LET h == Len(s) \div 2
         IN  MaxSkipNa(SeriesMax(SubSeq(s, 1, h)), SeriesMax(SubSeq(s, h + 1, Len(s))))

(***************************************************************************)
(* The four source queries of carregar_dados_reais, as SQL evaluates them. *)
(***************************************************************************)
LimitRows == 1000

\* LIMIT 1000
Limit(s) == SubSeq(s, 1, Min2(Len(s), LimitRows))

\* Variant: the WHERE clause is missing.
WherePopulacaoAusente(row) == TRUE

\* WHERE populacao_total > 0 (a NULL compares as unknown: not selected)
WherePopulacao(row) == RatGT(row.populacao_total, Num(0))

\* The SELECT list of query_populacao on one row.
SelectPopulacao(row) ==
    [codigo_ibge |-> row.codigo_ibge,
     populacao_total |-> row.populacao_total,
     populacao_60_mais |-> row.populacao_60_mais,
     percentual_idosos |->
        RatMul(RatDiv(row.populacao_60_mais, row.populacao_total), Num(100))]

\* SQL raises "division by zero" where pandas would give an infinity.
SqlDivisionByZero(row) ==
    ~IsNull(row.populacao_60_mais) /\ row.populacao_total = Num(0)

\* query_populacao: [ok |-> the statement ran, rows |-> its result].
QueryPopulacao(censo) ==
    LET sel == SelectSeq(censo, WherePopulacao)
    IN  IF \E i \in 1..Len(sel) : SqlDivisionByZero(sel[i])
        THEN [ok |-> FALSE, rows |-> <<>>]
        ELSE [ok |-> TRUE,
              rows |-> Limit([i \in 1..Len(sel) |-> SelectPopulacao(sel[i])])]

\* query_pib
QueryPib(pib) ==
    Limit([i \in 1..Len(pib) |->
             [codigo_ibge |-> pib[i].codigo_ibge,
              pib_per_capita |-> pib[i].pib_per_capita]])

\* The distinct keys of a relation, in order of first appearance.
RECURSIVE GroupKeys(_)
GroupKeys(s) ==
    IF s = <<>> THEN <<>>
    ELSE LET k == Head(s).codigo_ibge_municipio
         IN  <<k>> \o GroupKeys(SelectSeq(Tail(s),
                         LAMBDA r : r.codigo_ibge_municipio # k))

\* AVG(col): the mean of the non-NULL values, NULL when there is none.
Avg(vals) ==
    LET nn == SelectSeq(vals, LAMBDA v : ~IsNull(v))
    IN  IF nn = <<>> THEN NaN ELSE RatDiv(SumCells(nn), Num(Len(nn)))

\* SELECT key, COUNT(*), AVG(valor) ... GROUP BY key LIMIT 1000, on a
\* relation of rows [codigo_ibge_municipio, valor].
GroupCountAvg(rel) ==
    LET keys == GroupKeys(rel)
        grp(k) == SelectSeq(rel, LAMBDA r : r.codigo_ibge_municipio = k)
    IN  Limit([i \in 1..Len(keys) |->
                 LET g == grp(keys[i])
                 IN  [codigo_ibge_municipio |-> keys[i],
                      total |-> Num(Len(g)),
                      valor_medio |-> Avg([j \in 1..Len(g) |-> g[j].valor])]])

\* query_internacoes
QueryInternacoes(sus_aih) == GroupCountAvg(sus_aih)

\* query_procedimentos
QueryProcedimentos(sus_proc) == GroupCountAvg(sus_proc)

(***************************************************************************)
(* DataFrame.merge(how='left'): every left row is kept, in order; it is    *)
(* repeated once per right row with the same key, and carries the missing  *)
(* value in the right columns when there is none.                          *)
(***************************************************************************)
\* The key column of the right table named by side.
RightKey(side, r) ==
    IF side = "pib" THEN r.codigo_ibge ELSE r.codigo_ibge_municipio

\* The columns a right row contributes; suffixes=('', '_proc') renames the
\* key column of the last merge.
RightCols(side, r) ==
    CASE side = "pib" -> [pib_per_capita |-> r.pib_per_capita]
      [] side = "internacoes" ->
            [codigo_ibge_municipio |-> Num(r.codigo_ibge_municipio),
             total_internacoes |-> r.total,
             valor_medio_internacao |-> r.valor_medio]
      [] side = "procedimentos" ->
            [codigo_ibge_municipio_proc |-> Num(r.codigo_ibge_municipio),
             total_procedimentos |-> r.total,
             valor_medio_procedimento |-> r.valor_medio]

\* The same columns for a left row without a match.
RightNulls(side) ==
    CASE side = "pib" -> [pib_per_capita |-> NaN]
      [] side = "internacoes" ->
            [codigo_ibge_municipio |-> NaN, total_internacoes |-> NaN,
             valor_medio_internacao |-> NaN]
      [] side = "procedimentos" ->
            [codigo_ibge_municipio_proc |-> NaN, total_procedimentos |-> NaN,
             valor_medio_procedimento |-> NaN]

MergeLeft(left, right, side) ==
    Concat([i \in 1..Len(left) |->
        LET m == SelectSeq(right, LAMBDA r : RightKey(side, r) = left[i].codigo_ibge)
        IN  IF m = <<>> THEN <<left[i] @@ RightNulls(side)>>
            ELSE [j \in 1..Len(m) |-> left[i] @@ RightCols(side, m[j])]])

\* DataFrame.merge(how='inner'): a left row without a match is dropped.
MergeInner(left, right, side) ==
    Concat([i \in 1..Len(left) |->
        LET m == SelectSeq(right, LAMBDA r : RightKey(side, r) = left[i].codigo_ibge)
        IN  [j \in 1..Len(m) |-> left[i] @@ RightCols(side, m[j])]])

\* Variant: the three merges are inner joins.
JuntarDadosInner(dfPop, dfPib, dfInt, dfProc) ==
    MergeInner(MergeInner(MergeInner(dfPop, dfPib, "pib"), dfInt, "internacoes"),
               dfProc, "procedimentos")

\* df_completo of lines 101-114.
JuntarDados(dfPop, dfPib, dfInt, dfProc) ==
    MergeLeft(MergeLeft(MergeLeft(dfPop, dfPib, "pib"), dfInt, "internacoes"),
              dfProc, "procedimentos")

\* A missing cell read as zero, as Series.fillna(0) does.
FillNa0(x) == IF IsNull(x) THEN Num(0) ELSE x

\* Variant: the missing counts are filled with zero before the division.
CalcularIndicadoresFillna(row) ==
    row @@
    [internacoes_por_1000 |->
        RatMul(RatDiv(FillNa0(row.total_internacoes), row.populacao_total), Num(1000)),
     procedimentos_por_1000 |->
        RatMul(RatDiv(FillNa0(row.total_procedimentos), row.populacao_total), Num(1000)),
     gasto_internacao_per_capita |->
        RatDiv(RatMul(FillNa0(row.total_internacoes), row.valor_medio_internacao),
               row.populacao_total)]

\* The three derived columns of lines 117-119, on one row.
CalcularIndicadores(row) ==
    row @@
    [internacoes_por_1000 |->
        RatMul(RatDiv(row.total_internacoes, row.populacao_total), Num(1000)),
     procedimentos_por_1000 |->
        RatMul(RatDiv(row.total_procedimentos, row.populacao_total), Num(1000)),
     gasto_internacao_per_capita |->
        RatDiv(RatMul(row.total_internacoes, row.valor_medio_internacao),
               row.populacao_total)]

ColunasReais ==
    {"codigo_ibge", "populacao_total", "populacao_60_mais", "percentual_idosos",
     "pib_per_capita", "codigo_ibge_municipio", "total_internacoes",
     "valor_medio_internacao", "codigo_ibge_municipio_proc",
     "total_procedimentos", "valor_medio_procedimento", "internacoes_por_1000",
     "procedimentos_por_1000", "gasto_internacao_per_capita"}

(***************************************************************************)
(* The global numpy generator.  Its state is one integer; np.random.seed   *)
(* sets it from the seed alone and every draw advances it.  The Mersenne   *)
(* Twister is abstracted by a linear congruential step: what the model     *)
(* keeps is that a draw is a function of the state before it.              *)
(***************************************************************************)
RngModulus == 65537

NextRng(s) == (s * 75 + 74) % RngModulus

\* np.random.seed(seed)
RandomSeed(seed) == seed % RngModulus

\* The n states the generator goes through in n draws from state s.
RECURSIVE Stream(_, _)
Stream(s, n) ==
    IF n = 0 THEN <<>>
    ELSE IF n = 1 THEN <<NextRng(s)>>
    ELSE LET h == n \div 2
             a == Stream(s, h)
         IN  a \o Stream(a[h], n - h)

\* np.random.randint(lo, hi): an integer in [lo, hi)
RandInt(lo, hi, u) == Num(lo + ((u * 13) % (hi - lo)))

\* np.random.uniform(lo, hi): a real in [lo, hi)
Uniform(lo, hi, u) == Num(lo + (u % (hi - lo)))

\* np.random.choice(options)
Choice(options, u) == options[(u % Len(options)) + 1]

\* np.random.normal(mu, sigma): a real around mu
Normal(mu, sigma, u) == Num(mu + (u % (2 * sigma + 1)) - sigma)

(***************************************************************************)
(* carregar_dados_exemplo.                                                 *)
(***************************************************************************)
SEED == 42

n_municipios == 200

Regioes == <<"Norte", "Nordeste", "Sudeste", "Sul", "Centro-Oeste">>

ColunasExemplo ==
    {"codigo_ibge", "municipio", "populacao_total", "populacao_60_mais",
     "pib_per_capita", "regiao", "percentual_idosos", "internacoes_por_1000",
     "procedimentos_por_1000", "gasto_internacao_per_capita"}

\* Variant: the call does not seed the generator.
SemearGeradorAusente(rng) == rng

\* The generator state from which the first draw of the call is made:
\* line 133 discards whatever state the caller left.
SemearGerador(rng) == RandomSeed(SEED)

\* One row of the table: u holds the draws of the call in the order they
\* are made (n of each: randint, randint, uniform, choice, normal, normal).
LinhaExemplo(u, n, i) ==
    LET populacao_total == RandInt(10000, 800000, u[i])
        populacao_60_mais == RandInt(1000, 150000, u[n + i])
        pib_per_capita == Uniform(8000, 45000, u[2 * n + i])
        percentual_idosos ==
            RatMul(RatDiv(populacao_60_mais, populacao_total), Num(100))
        internacoes_por_1000 ==
            RatAdd(RatMul(percentual_idosos, Num(2)), Normal(0, 10, u[4 * n + i]))
    IN  [codigo_ibge |-> 100000 + i - 1,
         municipio |-> <<"Município", i>>,
         populacao_total |-> populacao_total,
         populacao_60_mais |-> populacao_60_mais,
         pib_per_capita |-> pib_per_capita,
         regiao |-> Choice(Regioes, u[3 * n + i]),
         percentual_idosos |-> percentual_idosos,
         internacoes_por_1000 |-> internacoes_por_1000,
         procedimentos_por_1000 |->
            RatAdd(RatDiv(pib_per_capita, Num(200)), Normal(0, 20, u[5 * n + i])),
         gasto_internacao_per_capita |-> RatMul(internacoes_por_1000, Num(50))]

\* [df |-> the table, rng |-> the generator state the call leaves].
CarregarDadosExemplo(rng) ==
    CHOOSE r \in
        {[df |-> [columns |-> ColunasExemplo,
                  rows |-> [i \in 1..n_municipios |-> LinhaExemplo(u, n_municipios, i)]],
          rng |-> u[Len(u)]] :
         u \in {Stream(SemearGerador(rng), 6 * n_municipios)}} : TRUE

(***************************************************************************)
(* Messages shown on the page.                                             *)
(***************************************************************************)
MsgErroConexao == "Erro na conexao: {e}"

MsgErroCarregar == "Erro ao carregar dados: {e}"

MsgAvisoExemplo == "Usando dados de exemplo. Configure as credenciais do banco no arquivo .env"

MsgDadosReais == "Dados REAIS carregados do banco!"

MsgAvisoConexao == "Usando dados de exemplo. Verifique a conexao com o banco."

(***************************************************************************)
(* conectar_banco.                                                         *)
(***************************************************************************)
EnvVars == {"DB_HOST", "DB_PORT", "DB_USER", "DB_PASSWORD", "DB_NAME"}

\* create_engine parses the URL and builds a lazy Engine: it opens no
\* connection.  An unset variable is formatted as the text "None"; the URL
\* is rejected only when its port is not a number.
CreateEngineRaises(absent) == "DB_PORT" \in absent

\* Whether a statement run through the Engine reaches the database.
Reachable(absent, up) == up /\ absent = {}

\* The body of conectar_banco: [value |-> "Engine" or "None", msgs].
ConectarBancoCorpo(absent) ==
    IF CreateEngineRaises(absent)
    THEN [value |-> "None", msgs |-> <<MsgErroConexao>>]
    ELSE [value |-> "Engine", msgs |-> <<>>]

\* @st.cache_resource: the body runs on the first call of the process; later
\* calls return the stored object and replay the stored messages.
ConectarBanco(cache, absent) ==
    IF cache.filled THEN [value |-> cache.value, msgs |-> cache.msgs, cache |-> cache]
    ELSE LET r == ConectarBancoCorpo(absent)
         IN  [value |-> r.value, msgs |-> r.msgs,
              cache |-> [filled |-> TRUE, value |-> r.value, msgs |-> r.msgs]]

(***************************************************************************)
(* carregar_dados_reais.                                                   *)
(***************************************************************************)
EmptyDf == [columns |-> {}, rows |-> <<>>]

Passos ==
    <<"query_populacao", "query_pib", "query_internacoes", "query_procedimentos",
      "merge", "indicadores">>

FalhasPossiveis == {"none"} \cup {Passos[i] : i \in 1..Len(Passos)}

\* The first step of the try block that raises, or "none".  Every read_sql
\* raises when the database is not reachable; fault names the step that
\* raises for another reason (a missing relation, a key of another type).
PrimeiraFalha(db, reachable, fault) ==
    IF ~reachable \/ fault = "query_populacao" \/ ~QueryPopulacao(db.censo).ok
    THEN "query_populacao"
    ELSE fault

\* How many read_sql calls were made when the given step raised.
ConsultasAte(falha) ==
    CASE falha = "query_populacao" -> 1
      [] falha = "query_pib" -> 2
      [] falha = "query_internacoes" -> 3
      [] OTHER -> 4

\* The try block of lines 55-121 when nothing raises.
TabelaReconciliada(db) ==
    LET junto == JuntarDados(QueryPopulacao(db.censo).rows, QueryPib(db.pib),
                             QueryInternacoes(db.sus_aih),
                             QueryProcedimentos(db.sus_proc))
    IN  [columns |-> ColunasReais,
         rows |-> [i \in 1..Len(junto) |-> CalcularIndicadores(junto[i])]]

\* Variant: the except branch shows the error and raises it again.
TratarExcecaoRelanca(rng) ==
    [df |-> EmptyDf, real |-> FALSE, raised |-> TRUE, rng |-> rng,
     msgs |-> <<MsgErroCarregar>>, exemplos |-> {}]

\* The except branch of lines 123-126.
TratarExcecao(rng) ==
    LET ex == CarregarDadosExemplo(rng)
    IN  [df |-> ex.df, real |-> FALSE, raised |-> FALSE, rng |-> ex.rng,
         msgs |-> <<MsgErroCarregar, MsgAvisoExemplo>>, exemplos |-> {ex.df}]

\* The body of carregar_dados_reais.
CarregarDadosReaisCorpo(db, reachable, fault, rng) ==
    LET falha == PrimeiraFalha(db, reachable, fault)
    IN  IF falha = "none"
        THEN [df |-> TabelaReconciliada(db), real |-> TRUE, raised |-> FALSE,
              rng |-> rng, msgs |-> <<>>, exemplos |-> {},
              queries |-> 4, failed |-> "none"]
        ELSE TratarExcecao(rng) @@
             [queries |-> ConsultasAte(falha), failed |-> falha]

\* The key under which @st.cache_data stores the result: the parameter is
\* named _engine, and a parameter whose name starts with an underscore is
\* left out of the key.
ChaveCache(engineValue) == "carregar_dados_reais"

\* @st.cache_data around the body.  A hit returns the stored table and
\* replays the stored messages; nothing is stored when the body raises.
CarregarDadosReais(cache, engineValue, db, reachable, fault, rng, now) ==
    IF cache.filled /\ cache.key = ChaveCache(engineValue)
    THEN [df |-> cache.df, real |-> cache.real, raised |-> FALSE, rng |-> rng,
          msgs |-> cache.msgs, exemplos |-> {}, queries |-> 0, failed |-> "none",
          hit |-> TRUE, computedAt |-> cache.computedAt, cache |-> cache]
    ELSE LET r == CarregarDadosReaisCorpo(db, reachable, fault, rng)
         IN  r @@ [hit |-> FALSE, computedAt |-> now,
                   cache |-> IF r.raised THEN cache
                             ELSE [filled |-> TRUE, key |-> ChaveCache(engineValue),
                                   df |-> r.df, real |-> r.real, msgs |-> r.msgs,
                                   computedAt |-> now]]

\* Variant of the load step: carregar_dados_reais is called whatever
\* conectar_banco returned; read_sql raises on None.
CarregarDadosSemTeste(cache, engineValue, db, reachable, fault, rng, now) ==
    LET r == CarregarDadosReais(cache, engineValue, db,
                                reachable /\ engineValue # "None", fault, rng, now)
    IN  [r EXCEPT !.msgs = IF r.raised THEN @ ELSE Append(@, MsgDadosReais)]

(***************************************************************************)
(* The load step of lines 169-179.                                         *)
(***************************************************************************)
CarregarDados(cache, engineValue, db, reachable, fault, rng, now) ==
    IF engineValue # "None"
    THEN LET r == CarregarDadosReais(cache, engineValue, db, reachable, fault, rng, now)
         IN  [r EXCEPT !.msgs = IF r.raised THEN @ ELSE Append(@, MsgDadosReais)]
    ELSE LET ex == CarregarDadosExemplo(rng)
         IN  [df |-> ex.df, real |-> FALSE, raised |-> FALSE, rng |-> ex.rng,
              msgs |-> <<MsgAvisoExemplo, MsgAvisoConexao>>, exemplos |-> {ex.df},
              queries |-> 0, failed |-> "none", hit |-> FALSE,
              computedAt |-> now, cache |-> cache]

(***************************************************************************)
(* The filter of lines 185-220.                                            *)
(***************************************************************************)
Column(df, c) == [i \in 1..Len(df.rows) |-> df.rows[i][c]]

Unique(df, c) == {df.rows[i][c] : i \in 1..Len(df.rows)}

\* Lines 188-197: a table without the column gets the constant 'Todos'.
ComRegiao(df) ==
    IF "regiao" \in df.columns THEN df
    ELSE [columns |-> df.columns \cup {"regiao"},
          rows |-> [i \in 1..Len(df.rows) |-> df.rows[i] @@ [regiao |-> "Todos"]]]

\* The boolean mask of lines 214-220 on one row.
Mascara(row, regs, faixaIdosos, faixaPib) ==
    /\ row.regiao \in regs
    /\ RatGE(row.percentual_idosos, faixaIdosos[1])
    /\ RatLE(row.percentual_idosos, faixaIdosos[2])
    /\ RatGE(row.pib_per_capita, faixaPib[1])
    /\ RatLE(row.pib_per_capita, faixaPib[2])

Filtrar(df, regs, faixaIdosos, faixaPib) ==
    [columns |-> df.columns,
     rows |-> SelectSeq(df.rows,
                LAMBDA row : Mascara(row, regs, faixaIdosos, faixaPib))]

\* The widget state of a slider: its initial value, or, once the user has
\* dragged both handles to the ends, the observed minimum and maximum.
FaixaPadraoIdosos == <<Frac(5, 1), Frac(25, 1)>>

FaixaPadraoPib == <<Frac(10000, 1), Frac(40000, 1)>>

FaixaCompleta(df, c) == <<SeriesMin(Column(df, c)), SeriesMax(Column(df, c))>>

\* The values the model lets a slider take: its initial value and, when the
\* column has an observed minimum and maximum, the full range.
FaixasDoSlider(padrao, df, c) ==
    {padrao} \cup
    (IF IsFinite(FaixaCompleta(df, c)[1]) THEN {FaixaCompleta(df, c)} ELSE {})

(***************************************************************************)
(* State.                                                                  *)
(***************************************************************************)
VARIABLES
    db,            \* the four source relations of the external database
    envAbsent,     \* the DB_* variables that are not set
    dbUp,          \* whether the database server answers
    faults,        \* the steps of the load that may raise, with "none"
    engineCache,   \* the st.cache_resource entry of conectar_banco
    dataCache,     \* the st.cache_data entry of carregar_dados_reais
    rng,           \* the state of the global numpy generator
    pc,            \* position of the page script in the current run
    run,           \* number of the current run
    engine,        \* the script's variable engine
    df,            \* the script's variable df
    msgs,          \* the messages shown so far in this run
    raised,        \* an exception left the load step
    regioes,       \* the selection of the multiselect
    faixa_idosos,  \* the value of the first slider
    faixa_pib,     \* the value of the second slider
    df_filtrado,   \* the script's variable df_filtrado
    dfReal,        \* history: df came out of the query-and-join path
    queries,       \* history: read_sql calls made in this run
    failed,        \* history: the step that raised in this run's load
    served,        \* history: [hit, computedAt] of the table loaded in this run
    exemplos,      \* history: the distinct tables carregar_dados_exemplo returned
    sorteios,      \* history: draws other code made from the generator
    epoch          \* history: times the connection was lost or re-established

vars ==
    <<db, envAbsent, dbUp, faults, engineCache, dataCache, rng, pc, run, engine,
      df, msgs, raised, regioes, faixa_idosos, faixa_pib, df_filtrado, dfReal,
      queries, failed, served, exemplos, sorteios, epoch>>

(***************************************************************************)
(* Bounds and input domains.                                               *)
(***************************************************************************)
MaxRuns == 2

MaxEpoch == 1

MaxSorteios == 1

\* The most rows one municipality has in each source relation.
MaxCensoRows == 1

MaxPibRows == 2

MaxAihRows == 1

MaxProcRows == 1

Codigos == {1, 2}

\* The population values of a census row: NULL, zero and two positive ones.
PopVals == {NaN, Num(0), Num(10), Num(40)}

\* The rows of one municipality in each relation, for a chosen number of
\* rows (and, in the census, a chosen population).
CensoRowsOf(cod, c) ==
    [i \in 1..c.k |-> [codigo_ibge |-> cod, populacao_total |-> c.pop,
                       populacao_60_mais |-> Num(4)]]

PibRowsOf(cod, k) ==
    [i \in 1..k |-> [codigo_ibge |-> cod, pib_per_capita |-> Num(3 * cod + i)]]

AihRowsOf(cod, k) ==
    [i \in 1..k |-> [codigo_ibge_municipio |-> cod, valor |-> Num(3 * i)]]

ProcRowsOf(cod, k) ==
    [i \in 1..k |-> [codigo_ibge_municipio |-> cod, valor |-> Num(7 * i)]]

\* The relations, the rows of municipality 1 first.
CensoTables ==
    {CensoRowsOf(1, c[1]) \o CensoRowsOf(2, c[2]) :
        c \in [Codigos -> [k : 0..MaxCensoRows, pop : PopVals]]}

PibTables ==
    {PibRowsOf(1, c[1]) \o PibRowsOf(2, c[2]) : c \in [Codigos -> 0..MaxPibRows]}

AihTables ==
    {AihRowsOf(1, c[1]) \o AihRowsOf(2, c[2]) : c \in [Codigos -> 0..MaxAihRows]}

ProcTables ==
    {ProcRowsOf(1, c[1]) \o ProcRowsOf(2, c[2]) : c \in [Codigos -> 0..MaxProcRows]}

Databases ==
    [censo : CensoTables, pib : PibTables, sus_aih : AihTables, sus_proc : ProcTables]

\* Scenario A of the specification: one municipality, no other relation
\* holds a row for it.
CenarioA ==
    [censo |-> <<[codigo_ibge |-> 100001, populacao_total |-> Num(200000),
                  populacao_60_mais |-> Num(30000)]>>,
     pib |-> <<>>, sus_aih |-> <<>>, sus_proc |-> <<>>]

\* Scenario B: as A, with 400 admissions of 2500.0 each.
CenarioB ==
    [CenarioA EXCEPT !.sus_aih =
        [i \in 1..400 |-> [codigo_ibge_municipio |-> 100001, valor |-> Num(2500)]]]

\* Two municipalities, PIB known for one of them only, and a census row
\* with no inhabitants.
CenarioC ==
    [censo |-> <<[codigo_ibge |-> 1, populacao_total |-> Num(40),
                  populacao_60_mais |-> Num(4)],
                 [codigo_ibge |-> 2, populacao_total |-> Num(10),
                  populacao_60_mais |-> Num(4)],
                 [codigo_ibge |-> 3, populacao_total |-> Num(0),
                  populacao_60_mais |-> Num(0)]>>,
     pib |-> <<[codigo_ibge |-> 1, pib_per_capita |-> Num(8)]>>,
     sus_aih |-> <<[codigo_ibge_municipio |-> 1, valor |-> Num(3)],
                   [codigo_ibge_municipio |-> 1, valor |-> Num(6)]>>,
     sus_proc |-> <<[codigo_ibge_municipio |-> 2, valor |-> Num(7)]>>]

\* A census row whose population is not recorded, next to a regular one.
CenarioD ==
    [censo |-> <<[codigo_ibge |-> 1, populacao_total |-> NaN,
                  populacao_60_mais |-> Num(4)],
                 [codigo_ibge |-> 2, populacao_total |-> Num(10),
                  populacao_60_mais |-> Num(4)]>>,
     pib |-> <<[codigo_ibge |-> 1, pib_per_capita |-> Num(5)],
               [codigo_ibge |-> 2, pib_per_capita |-> Num(8)]>>,
     sus_aih |-> <<[codigo_ibge_municipio |-> 2, valor |-> Num(3)]>>,
     sus_proc |-> <<>>]

Cenarios == {CenarioC, CenarioD}

NoCache == [filled |-> FALSE]

NoServed == [hit |-> FALSE, computedAt |-> -1]

InitLocals ==
    /\ engine = "unset"
    /\ df = EmptyDf
    /\ msgs = <<>>
    /\ raised = FALSE
    /\ regioes = {}
    /\ faixa_idosos = <<NaN, NaN>>
    /\ faixa_pib = <<NaN, NaN>>
    /\ df_filtrado = EmptyDf
    /\ dfReal = FALSE
    /\ queries = 0
    /\ failed = "none"
    /\ served = NoServed

InitProcess ==
    /\ engineCache = NoCache
    /\ dataCache = NoCache
    /\ pc = "conectar"
    /\ run = 1
    /\ exemplos = {}
    /\ sorteios = 0
    /\ epoch = 0
    /\ InitLocals

\* The page over its runs, any environment.
Init ==
    /\ db \in Cenarios
    /\ envAbsent \in {{}} \cup {{v} : v \in EnvVars}
    /\ dbUp \in BOOLEAN
    /\ faults = FalhasPossiveis
    /\ rng = 1
    /\ InitProcess

\* One run of the page against a working database, any content.
InitPipeline ==
    /\ db \in Databases \cup {CenarioA, CenarioB, CenarioC}
    /\ envAbsent = {}
    /\ dbUp = TRUE
    /\ faults = {"none"}
    /\ rng = 1
    /\ InitProcess

(***************************************************************************)
(* The steps of one run of the script.                                     *)
(***************************************************************************)
\* Line 170: engine = conectar_banco().
PassoConectar ==
    /\ pc = "conectar"
    /\ \E r \in {ConectarBanco(engineCache, envAbsent)} :
           /\ engine' = r.value
           /\ engineCache' = r.cache
           /\ msgs' = msgs \o r.msgs
    /\ pc' = "carregar"
    /\ UNCHANGED <<db, envAbsent, dbUp, faults, dataCache, rng, run, df, raised,
                   regioes, faixa_idosos, faixa_pib, df_filtrado, dfReal, queries,
                   failed, served, exemplos, sorteios, epoch>>

\* Lines 172-179.
PassoCarregar ==
    /\ pc = "carregar"
    /\ \E fault \in faults :
       \E r \in {CarregarDados(dataCache, engine, db, Reachable(envAbsent, dbUp),
                               fault, rng, epoch)} :
           /\ df' = r.df
           /\ dfReal' = r.real
           /\ raised' = r.raised
           /\ rng' = r.rng
           /\ msgs' = msgs \o r.msgs
           /\ queries' = r.queries
           /\ failed' = r.failed
           /\ served' = [hit |-> r.hit, computedAt |-> r.computedAt]
           /\ dataCache' = r.cache
           /\ exemplos' = exemplos \cup r.exemplos
           /\ pc' = IF r.raised THEN "excecao" ELSE "filtrar"
    /\ UNCHANGED <<db, envAbsent, dbUp, faults, engineCache, run, engine,
                   regioes, faixa_idosos, faixa_pib, df_filtrado, sorteios, epoch>>

\* Lines 185-220, for the widget state the user has set.
PassoFiltrar ==
    /\ pc = "filtrar"
    /\ \E d \in {ComRegiao(df)} : \E todas \in {Unique(d, "regiao")} :
           /\ df' = d
           /\ regioes' \in {todas} \cup
                  (IF "regiao" \in df.columns /\ df.rows # <<>>
                   THEN {todas \ {df.rows[1].regiao}} ELSE {})
           /\ faixa_idosos' \in FaixasDoSlider(FaixaPadraoIdosos, d, "percentual_idosos")
           /\ faixa_pib' \in FaixasDoSlider(FaixaPadraoPib, d, "pib_per_capita")
           /\ df_filtrado' = Filtrar(d, regioes', faixa_idosos', faixa_pib')
    /\ pc' = "fim"
    /\ UNCHANGED <<db, envAbsent, dbUp, faults, engineCache, dataCache, rng,
                   run, engine, msgs, raised, dfReal, queries, failed, served,
                   exemplos, sorteios, epoch>>

\* The user interacts with the page: the script runs again from the top.
NovaExecucao ==
    /\ pc \in {"fim", "excecao"}
    /\ run < MaxRuns
    /\ run' = run + 1
    /\ pc' = "conectar"
    /\ engine' = "unset"
    /\ df' = EmptyDf
    /\ msgs' = <<>>
    /\ raised' = FALSE
    /\ regioes' = {}
    /\ faixa_idosos' = <<NaN, NaN>>
    /\ faixa_pib' = <<NaN, NaN>>
    /\ df_filtrado' = EmptyDf
    /\ dfReal' = FALSE
    /\ queries' = 0
    /\ failed' = "none"
    /\ served' = NoServed
    /\ UNCHANGED <<db, envAbsent, dbUp, faults, engineCache, dataCache, rng, exemplos,
                   sorteios, epoch>>

\* Between two runs the database server goes down or comes back.
ConexaoMuda ==
    /\ pc = "fim"
    /\ epoch < MaxEpoch
    /\ epoch' = epoch + 1
    /\ dbUp' = ~dbUp
    /\ UNCHANGED <<db, envAbsent, faults, engineCache, dataCache, rng, pc,
                   run, engine, df, msgs, raised, regioes, faixa_idosos, faixa_pib,
                   df_filtrado, dfReal, queries, failed, served, exemplos,
                   sorteios>>

\* Between two runs other code of the process draws from the generator.
OutroSorteio ==
    /\ pc = "fim"
    /\ sorteios < MaxSorteios
    /\ sorteios' = sorteios + 1
    /\ rng' = NextRng(rng)
    /\ UNCHANGED <<db, envAbsent, dbUp, faults, engineCache, dataCache, pc,
                   run, engine, df, msgs, raised, regioes, faixa_idosos, faixa_pib,
                   df_filtrado, dfReal, queries, failed, served, exemplos,
                   epoch>>

Next ==
    \/ PassoConectar
    \/ PassoCarregar
    \/ PassoFiltrar
    \/ NovaExecucao
    \/ ConexaoMuda
    \/ OutroSorteio

NextPipeline ==
    \/ PassoConectar
    \/ PassoCarregar
    \/ PassoFiltrar

Spec == Init /\ [][Next]_vars

SpecPipeline == InitPipeline /\ [][NextPipeline]_vars

(***************************************************************************)
(* Properties.                                                             *)
(***************************************************************************)
Shown(m) == \E i \in 1..Len(msgs) : msgs[i] = m

\* The load step of the current run has returned.
Loaded == pc \in {"filtrar", "fim"}

\* No two rows of the census or PIB relation have the same codigo_ibge.
UniqueKeys(rel) ==
    \A i, j \in 1..Len(rel) : i # j => rel[i].codigo_ibge # rel[j].codigo_ibge

\* The raw relation holds a row for the municipality.
HasRow(rel, k) == \E i \in 1..Len(rel) : rel[i].codigo_ibge = k

HasAggRow(rel, k) == \E i \in 1..Len(rel) : rel[i].codigo_ibge_municipio = k

\* The precondition of the join contract: at most one row per codigo_ibge in
\* the census and PIB relations (the two aggregates are grouped by it).
OneRowPerCodigo ==
    /\ UniqueKeys(SelectSeq(db.censo, LAMBDA r : RatGT(r.populacao_total, Num(0))))
    /\ UniqueKeys(db.pib)

C2_DerivedFields ==
    (pc = "filtrar" /\ dfReal) =>
        /\ \A i \in 1..Len(df.rows) :
            LET row == df.rows[i]
                P == row.populacao_total
                T == row.total_internacoes
                V == row.valor_medio_internacao
                Q == row.total_procedimentos
                x == row.internacoes_por_1000
                y == row.procedimentos_por_1000
                g == row.gasto_internacao_per_capita
            IN  /\ IF IsNull(T) \/ IsNull(P) THEN IsNull(x)
                   ELSE IsFinite(x) /\ x.n * P.n * T.d = 1000 * T.n * P.d * x.d
                /\ IF IsNull(Q) \/ IsNull(P) THEN IsNull(y)
                   ELSE IsFinite(y) /\ y.n * P.n * Q.d = 1000 * Q.n * P.d * y.d
                /\ IF IsNull(T) \/ IsNull(V) \/ IsNull(P) THEN IsNull(g)
                   ELSE IsFinite(g) /\ g.n * P.n * T.d * V.d = T.n * V.n * P.d * g.d
        /\ db = CenarioB =>
            /\ df.rows[1].internacoes_por_1000 = Num(2)
            /\ df.rows[1].gasto_internacao_per_capita = Num(5)

\* A reconciled table with a row whose derived fields are computed and a row
\* whose hospitalization fields are missing.
C2_Witness ==
    /\ pc = "filtrar" /\ dfReal
    /\ \E i \in 1..Len(df.rows) :
          /\ ~IsNull(df.rows[i].internacoes_por_1000)
          /\ ~IsNull(df.rows[i].gasto_internacao_per_capita)
          /\ ~IsNull(df.rows[i].procedimentos_por_1000)
    /\ \E i \in 1..Len(df.rows) : IsNull(df.rows[i].total_internacoes)

\* C3: when the engine exists and a step of carregar_dados_reais raises,
\* no exception leaves the load step, the script goes on with a table that
\* carregar_dados_exemplo produced, and the error message has been shown.
C3_FailureContained ==
    (engine = "Engine" /\ failed # "none") =>
        /\ ~raised
        /\ Loaded
        /\ Shown(MsgErroCarregar)
        /\ ~dfReal
        /\ pc = "filtrar" => (df \in exemplos /\ Len(df.rows) = n_municipios)

\* The derived-field computation raised while the database answered.
C3_Witness ==
    /\ pc = "filtrar" /\ engine = "Engine" /\ failed = "indicadores"
    /\ Reachable(envAbsent, dbUp)
    /\ df \in exemplos

\* C4: when conectar_banco returned None, the load step makes no query and
\* raises nothing, df is the synthetic table of n_municipios = 200 rows, the
\* page does not announce real data and a warning has been shown.
C4_Unavailable ==
    (engine = "None" /\ pc # "carregar") =>
        /\ Loaded
        /\ ~raised
        /\ queries = 0
        /\ Len(df.rows) = 200
        /\ df.columns = ColunasExemplo
        /\ ~dfReal
        /\ ~Shown(MsgDadosReais)
        /\ Shown(MsgAvisoExemplo) \/ Shown(MsgAvisoConexao)

C4_Witness ==
    /\ pc = "filtrar" /\ engine = "None"
    /\ Len(df.rows) = 200 /\ Shown(MsgAvisoConexao)

\* C5: once the load step has returned, the page announces real data exactly
\* when df came out of the query-and-join path, and announces example data
\* exactly when df is the synthetic table.
C5_StatusFaithful ==
    Loaded =>
        /\ Shown(MsgDadosReais) <=> dfReal
        /\ (Shown(MsgAvisoExemplo) \/ Shown(MsgAvisoConexao)) <=> ~dfReal

\* C6: conectar_banco raises nothing and returns None whenever a DB_*
\* variable is not set or the database cannot be reached.
C6_ResolverContract ==
    (run = 1 /\ epoch = 0 /\ pc # "conectar") =>
        /\ ~raised
        /\ (envAbsent # {} \/ ~dbUp) => engine = "None"

\* C7: with every region selected and both sliders at the observed minimum
\* and maximum, the filtered table is the unfiltered table.
C7_FullRangeIdentity ==
    ( /\ pc = "fim"
      /\ regioes = Unique(df, "regiao")
      /\ IsFinite(faixa_idosos[1]) /\ IsFinite(faixa_pib[1])
      /\ faixa_idosos = FaixaCompleta(df, "percentual_idosos")
      /\ faixa_pib = FaixaCompleta(df, "pib_per_capita") )
    => df_filtrado = df

\* C8: all the calls of carregar_dados_exemplo made so far returned the same
\* table, whatever the generator state was when each was made.
C8_FallbackDeterminism == Cardinality(exemplos) <= 1

\* Second call of carregar_dados_exemplo, made after another draw moved the
\* generator on from where the first call left it.
C8_Witness ==
    /\ run = 2 /\ pc = "filtrar" /\ engine = "None" /\ sorteios >= 1
    /\ Cardinality(exemplos) = 1

\* C9: every row of the table the load step hands on has populacao_total > 0
\* and no derived field of it is an infinity, the result of a division by
\* zero.
C9_PositivePopulation ==
    Loaded =>
        \A i \in 1..Len(df.rows) :
            /\ RatGT(df.rows[i].populacao_total, Num(0))
            /\ ~IsInf(df.rows[i].percentual_idosos)
            /\ ~IsInf(df.rows[i].internacoes_por_1000)
            /\ ~IsInf(df.rows[i].procedimentos_por_1000)
            /\ ~IsInf(df.rows[i].gasto_internacao_per_capita)

\* A real table was delivered from a census that holds a row without a
\* positive population.
C9_Witness ==
    /\ pc = "filtrar" /\ dfReal /\ Len(df.rows) > 0
    /\ \E i \in 1..Len(db.censo) : ~RatGT(db.censo[i].populacao_total, Num(0))

\* C10: the table a run loads through carregar_dados_reais was computed
\* under the connection state of that run: it is recomputed once the
\* connection was lost or re-established after it was cached.
C10_CacheFollowsConnection ==
    (pc = "filtrar" /\ engine = "Engine") => served.computedAt = epoch

====
